---- MODULE Spec2Model ----
(***************************************************************************)
(* Model of improver's vertical integration plugin                         *)
(* (lib/improver/utilities/vertical.py) and of the Ensemble Copula         *)
(* Coupling utilities                                                      *)
(* (lib/improver/ensemble_copula_coupling/                                 *)
(*  ensemble_copula_coupling_utilities.py).                                *)
(*                                                                         *)
(* Each component has its own specification (SpecVI, SpecPct, ...); the    *)
(* variables of the other components stay at their idle value.             *)
(*                                                                         *)
(* Numbers.  The percentiles are IEEE binary floats [m, e] (value m * 2^e)  *)
(* over unbounded naturals, every operation rounding its exact result to   *)
(* 53 bits (24 for np.float32), to nearest, ties to even.  The vertical    *)
(* coordinate's points and the column's data are small integers and all    *)
(* points are even, so that the floats of the integration are exact and    *)
(* are written as integers.                                                *)
(***************************************************************************)
EXTENDS Integers, Sequences, FiniteSets

VARIABLES
    \* ---- VerticalIntegration object and one call of process ----
    coord_name_to_integrate, start_point, end_point, direction_of_integration,
    vpc,                \* "new" | "ready" | "loop" | "done" | "error"
    verr,               \* the exception raised, or "none"
    cube,               \* the input column: [points, data]
    slices_share_data,  \* whether a slice's data setter reaches its parent cube
    upper_level_cube, lower_level_cube, integrated_cube,
    layer_sum,
    level_index,        \* position of the loop over levels_tuple
    \* ---- one call of choose_set_of_percentiles ----
    no_of_percentiles, sampling,
    percentiles,        \* the local list, in probability units
    ppc,                \* "idle" | "drawing" | "done" | "error"
    perr,               \* the exception raised, or "none"
    pct_result,         \* the list returned
    \* ---- one call of restore_non_probabilistic_dimensions ----
    array_to_reshape,   \* [shape]: the shape of the 2-D array
    original_cube,      \* [shape, dim_coords, aux_coords]
    input_probabilistic_dimension_name,
    output_probabilistic_dimension_length,
    shape_to_reshape_to,
    rpc,                \* "idle" | "done" | "error"
    rerr,               \* the exception raised, or "none"
    rraised_by,         \* the statement that raised it, or "none"
    restored,           \* the array returned: [shape]
    \* ---- one call of create_cube_with_percentiles ----
    supplied_percentiles, \* the argument percentiles
    template_cube,      \* [shape, units, dim_coords, aux_coords, derived_coords]
    cube_data,          \* [shape]
    custom_name, cube_unit,
    percentile_coord,   \* [name, points, units]
    result,             \* [shape, units, dim_coords, aux_coords]
    cpc,                \* "idle" | "dim_coords" | "aux_coords" |
                        \* "derived_coords" | "done" | "error"
    cerr,               \* the library call that raised, or "none"
    coord_index,        \* position of the loop over the template's coordinates
    \* ---- one call of an endpoint padding function ----
    array_in,           \* the argument array_1d or array_2d: [dtype, rows],
                        \* a 1-d array being one row
    low_endpoint, high_endpoint, \* [kind, value]: a Python int or float
    array_out,          \* the array returned: [dtype, rows]
    padpc,              \* "idle" | "1d" | "2d": the function that returned
    \* ---- one call of ensure_monotonic_in_chosen_direction ----
    coord_kind,         \* "DimCoord" | "AuxCoord": the chosen coordinate
    cube_in,            \* the argument cube: [points, data]
    cube_out,           \* the cube returned
    mpc                 \* "idle" | "returned"

viVars == <<coord_name_to_integrate, start_point, end_point,
            direction_of_integration, vpc, verr, cube, slices_share_data,
            upper_level_cube, lower_level_cube, integrated_cube,
            layer_sum, level_index>>

pctVars == <<no_of_percentiles, sampling, percentiles, ppc, perr, pct_result>>

restoreVars == <<array_to_reshape, original_cube,
                 input_probabilistic_dimension_name,
                 output_probabilistic_dimension_length, shape_to_reshape_to,
                 rpc, rerr, rraised_by, restored>>

cubeVars == <<supplied_percentiles, template_cube, cube_data, custom_name,
              cube_unit, percentile_coord, result, cpc, cerr, coord_index>>

padVars == <<array_in, low_endpoint, high_endpoint, array_out, padpc>>

monoVars == <<coord_kind, cube_in, cube_out, mpc>>

vars == <<viVars, pctVars, restoreVars, cubeVars, padVars, monoVars>>

\* What the operations of one component leave alone.
notVI == <<pctVars, restoreVars, cubeVars, padVars, monoVars>>
notPct == <<viVars, restoreVars, cubeVars, padVars, monoVars>>
notRestore == <<viVars, pctVars, cubeVars, padVars, monoVars>>
notCube == <<viVars, pctVars, restoreVars, padVars, monoVars>>
notPad == <<viVars, pctVars, restoreVars, cubeVars, monoVars>>
notMono == <<pctVars, restoreVars, cubeVars, padVars>>

\* ------------------------------------------------------------------ bounds

\* Largest number of levels of the input column; the level points are drawn
\* from 0, 10, ..., 10 * (MaxLevels - 1).
MaxLevels == 4

\* Largest number of percentiles asked of choose_set_of_percentiles, in
\* quantile mode and in random mode.
MaxPercentiles == 12
MaxRandomPercentiles == 3

\* random.random() is drawn from the multiples of 2^-RandomBits in [0, 1).
RandomBits == 2

\* Cubes have 1 to MaxDims dimensions of 1 to MaxDimLength points each; the
\* 2-D arrays have up to MaxRows rows and the new probabilistic dimension
\* up to MaxRows points.
MaxDims == 3
MaxDimLength == 2
MaxRows == 3

\* Largest number of percentiles handed to create_cube_with_percentiles.
MaxCubePercentiles == 2

\* Largest number of rows and of columns of an array padded with endpoints.
MaxPadRows == 2
MaxPadLength == 2

\* ----------------------------------------------------------------- helpers

Range(s) == {s[i] : i \in 1..Len(s)}

Reverse(s) == [i \in 1..Len(s) |-> s[Len(s) + 1 - i]]

Min(a, b) == IF a <= b THEN a ELSE b

\* Python's None, and a value that is set.
None == <<>>
Some(v) == <<v>>

\* Python truth value of "None or a number": None and 0 are false.
Truthy(x) == x # None /\ x[1] # 0

\* 0.5 * x, for the even x the model uses.
Half(x) == x \div 2

\* ------------------------------------------------- unbounded naturals
\* A natural number is the sequence of its digits in base LimbBase, least
\* significant first, without leading zero digits; zero is <<>>.
LimbBase == 2^15

RECURSIVE BigNorm(_)
BigNorm(x) ==
    IF x = <<>> THEN <<>>
    ELSE IF x[Len(x)] = 0 THEN BigNorm(SubSeq(x, 1, Len(x) - 1))
    ELSE x

RECURSIVE BigFromInt(_)
BigFromInt(n) ==
    IF n = 0 THEN <<>>
    ELSE <<n % LimbBase>> \o BigFromInt(n \div LimbBase)

RECURSIVE BigAddCarry(_, _, _)
BigAddCarry(x, y, carry) ==
    IF x = <<>> /\ y = <<>> THEN (IF carry = 0 THEN <<>> ELSE <<carry>>)
    ELSE LET a == IF x = <<>> THEN 0 ELSE Head(x)
             b == IF y = <<>> THEN 0 ELSE Head(y)
             t == a + b + carry
         IN <<t % LimbBase>> \o
            BigAddCarry(IF x = <<>> THEN <<>> ELSE Tail(x),
                        IF y = <<>> THEN <<>> ELSE Tail(y),
                        t \div LimbBase)

BigAdd(x, y) == BigAddCarry(x, y, 0)

\* x - y for x >= y.
RECURSIVE BigSubBorrow(_, _, _)
BigSubBorrow(x, y, borrow) ==
    IF x = <<>> THEN <<>>
    ELSE LET b == IF y = <<>> THEN 0 ELSE Head(y)
             t == Head(x) - b - borrow
         IN <<t % LimbBase>> \o
            BigSubBorrow(Tail(x), IF y = <<>> THEN <<>> ELSE Tail(y),
                         IF t < 0 THEN 1 ELSE 0)

BigSub(x, y) == BigNorm(BigSubBorrow(x, y, 0))

\* -1, 0 or 1 as x is less than, equal to or greater than y.
RECURSIVE BigCmpFrom(_, _, _)
BigCmpFrom(x, y, i) ==
    IF i = 0 THEN 0
    ELSE IF x[i] < y[i] THEN -1
    ELSE IF x[i] > y[i] THEN 1
    ELSE BigCmpFrom(x, y, i - 1)

BigCmp(x, y) ==
    IF Len(x) < Len(y) THEN -1
    ELSE IF Len(x) > Len(y) THEN 1
    ELSE BigCmpFrom(x, y, Len(x))

BigLeq(x, y) == BigCmp(x, y) <= 0

\* x * c for a digit-sized c (0 <= c < LimbBase).
RECURSIVE BigMulSmallCarry(_, _, _)
BigMulSmallCarry(x, c, carry) ==
    IF x = <<>> THEN (IF carry = 0 THEN <<>> ELSE <<carry>>)
    ELSE LET t == Head(x) * c + carry
         IN <<t % LimbBase>> \o BigMulSmallCarry(Tail(x), c, t \div LimbBase)

BigMulSmall(x, c) == IF c = 0 THEN <<>> ELSE BigMulSmallCarry(x, c, 0)

RECURSIVE BigMul(_, _)
BigMul(x, y) ==
    IF y = <<>> \/ x = <<>> THEN <<>>
    ELSE LET rest == BigMul(x, Tail(y))
         IN BigAdd(BigMulSmall(x, Head(y)),
                   IF rest = <<>> THEN <<>> ELSE <<0>> \o rest)

\* Quotient and remainder of x by a digit-sized d > 0.
RECURSIVE BigDivSmallFrom(_, _, _, _)
BigDivSmallFrom(x, d, i, rem) ==
    IF i = 0 THEN [q |-> <<>>, r |-> rem]
    ELSE LET t == rem * LimbBase + x[i]
             rest == BigDivSmallFrom(x, d, i - 1, t % d)
         IN [q |-> rest.q \o <<t \div d>>, r |-> rest.r]

BigDivSmall(x, d) ==
    LET res == BigDivSmallFrom(x, d, Len(x), 0)
    IN [q |-> BigNorm(res.q), r |-> res.r]

\* x * 2^s.
RECURSIVE BigShiftLeft(_, _)
BigShiftLeft(x, s) ==
    IF x = <<>> \/ s = 0 THEN x
    ELSE IF s >= 15 THEN BigShiftLeft(<<0>> \o x, s - 15)
    ELSE BigMulSmall(x, 2^s)

\* floor(x / 2^s), and whether a 1 bit was shifted out.
RECURSIVE BigShiftRight(_, _)
BigShiftRight(x, s) ==
    IF x = <<>> \/ s = 0 THEN [q |-> x, lost |-> FALSE]
    ELSE IF s >= 15
         THEN LET rest == BigShiftRight(Tail(x), s - 15)
              IN [q |-> rest.q, lost |-> rest.lost \/ Head(x) # 0]
    ELSE LET res == BigDivSmall(x, 2^s)
         IN [q |-> res.q, lost |-> res.r # 0]

RECURSIVE BitLenInt(_)
BitLenInt(n) == IF n = 0 THEN 0 ELSE 1 + BitLenInt(n \div 2)

BigBitLen(x) ==
    IF x = <<>> THEN 0 ELSE 15 * (Len(x) - 1) + BitLenInt(x[Len(x)])

BigIsOdd(x) == x # <<>> /\ Head(x) % 2 = 1

\* --------------------------------------------------------- binary floats
\* A non-negative binary float is [m, e]: the value m * 2^e, m an odd
\* natural number (or zero, with e = 0).  Exponent range is not modelled.

RECURSIVE TrailingZerosInt(_)
TrailingZerosInt(n) == IF n % 2 = 1 THEN 0 ELSE 1 + TrailingZerosInt(n \div 2)

RECURSIVE Canonical(_, _)
Canonical(k, e) ==
    IF k = <<>> THEN [m |-> <<>>, e |-> 0]
    ELSE IF Head(k) = 0 THEN Canonical(Tail(k), e + 15)
    ELSE LET z == TrailingZerosInt(Head(k))
         IN [m |-> BigShiftRight(k, z).q, e |-> e + z]

\* k * 2^e (more exactly: a value strictly between k * 2^e and
\* (k+1) * 2^e when sticky) rounded to a significand of p bits, to nearest,
\* ties to even.
RoundTo(p, k, e, sticky) ==
    LET len == BigBitLen(k) IN
    IF len <= p THEN Canonical(k, e)
    ELSE LET s == len - p
             k1 == BigShiftRight(k, s - 1)
             round_bit == BigIsOdd(k1.q)
             q == BigShiftRight(k1.q, 1).q
             up == round_bit /\ (sticky \/ k1.lost \/ BigIsOdd(q))
         IN Canonical(IF up THEN BigAdd(q, <<1>>) ELSE q, e + s)

FloatFromInt(n) == Canonical(BigFromInt(n), 0)

\* The significands of x and y over their smaller exponent.
Aligned(x, y) ==
    LET e == IF x.e <= y.e THEN x.e ELSE y.e
    IN [a |-> BigShiftLeft(x.m, x.e - e), b |-> BigShiftLeft(y.m, y.e - e),
        e |-> e]

FloatLess(x, y) == LET al == Aligned(x, y) IN BigCmp(al.a, al.b) < 0
FloatLeq(x, y) == LET al == Aligned(x, y) IN BigCmp(al.a, al.b) <= 0

\* 64-bit float arithmetic: the exact result, rounded once.
FloatAdd(x, y) ==
    LET al == Aligned(x, y) IN RoundTo(53, BigAdd(al.a, al.b), al.e, FALSE)

\* x - y for x >= y.
FloatSub(x, y) ==
    LET al == Aligned(x, y) IN RoundTo(53, BigSub(al.a, al.b), al.e, FALSE)

FloatMul(x, y) == RoundTo(53, BigMul(x.m, y.m), x.e + y.e, FALSE)

\* x / d for an integer 0 < d < LimbBase.
FloatDivInt(x, d) ==
    LET res == BigDivSmall(BigShiftLeft(x.m, 75), d)
    IN RoundTo(53, res.q, x.e - 75, res.r # 0)

\* np.float32(x): the nearest 32-bit float.
Float32(x) == RoundTo(24, x.m, x.e, FALSE)

\* x against the rational p/q and the tolerance 2^-40, for naturals p and
\* q > 0 below LimbBase: the three numbers x * q, p and q * 2^-40 over a
\* common power of two.
Scaled(x, p, q) ==
    LET s == IF -x.e > 40 THEN -x.e ELSE 40
    IN [x |-> BigMulSmall(BigShiftLeft(x.m, s + x.e), q),
        r |-> BigShiftLeft(BigFromInt(p), s),
        tol |-> BigShiftLeft(BigFromInt(q), s - 40)]

\* x < p/q, x <= p/q, exactly.
LessThanRatio(x, p, q) ==
    LET sc == Scaled(x, p, q) IN BigCmp(sc.x, sc.r) < 0
GreaterThanRatio(x, p, q) ==
    LET sc == Scaled(x, p, q) IN BigCmp(sc.x, sc.r) > 0

\* x <= p/q + 2^-40, x >= p/q - 2^-40, and both: |x - p/q| <= 2^-40.
AtMostRatio(x, p, q) ==
    LET sc == Scaled(x, p, q) IN BigLeq(sc.x, BigAdd(sc.r, sc.tol))
AtLeastRatio(x, p, q) ==
    LET sc == Scaled(x, p, q) IN BigLeq(sc.r, BigAdd(sc.x, sc.tol))
CloseTo(x, p, q) == AtMostRatio(x, p, q) /\ AtLeastRatio(x, p, q)

\* ============================================================ vertical.py

LevelPoints == {10 * k : k \in 0..(MaxLevels - 1)}
DataValues == {1, 2}
BoundPoints == {None, Some(0), Some(10), Some(20), Some(100)}
Directions == {"upwards", "downwards", "sideways"}

\* points[::step] > 0 all along: np.all(np.diff(points) > 0), true of an
\* empty difference.
IncreasingOrder(points) ==
    \A i \in 1..(Len(points) - 1) : points[i + 1] - points[i] > 0

IsMonotonic(points) ==
    \/ IncreasingOrder(points)
    \/ \A i \in 1..(Len(points) - 1) : points[i + 1] - points[i] < 0

\* The columns a caller can pass: a strictly monotonic coordinate of 2 to
\* MaxLevels points (a dimension coordinate), one datum per level.
InputCubes ==
    UNION {
        {[points |-> p, data |-> d] :
            p \in {q \in [1..n -> LevelPoints] : IsMonotonic(q)},
            d \in [1..n -> DataValues]}
        : n \in 2..MaxLevels}

\* cube.extract(iris.Constraint(coord_values={name: levels})): the levels
\* of the cube whose point is one of the given values, in the cube's order.
RECURSIVE ExtractFrom(_, _, _)
ExtractFrom(c, levels, i) ==
    IF i > Len(c.points) THEN [points |-> <<>>, data |-> <<>>]
    ELSE LET rest == ExtractFrom(c, levels, i + 1) IN
         IF c.points[i] \in Range(levels)
         THEN [points |-> <<c.points[i]>> \o rest.points,
               data |-> <<c.data[i]>> \o rest.data]
         ELSE rest

Extract(c, levels) == ExtractFrom(c, levels, 1)

\* VerticalIntegration.ensure_monotonic_in_chosen_direction: the points of
\* the coordinate are reversed, the data stay where they are.
EnsureMonotonicInChosenDirection(c, direction) ==
    LET increasing_order == IncreasingOrder(c.points) IN
    IF increasing_order /\ direction = "upwards" THEN c
    ELSE IF increasing_order /\ direction = "downwards"
         THEN [c EXCEPT !.points = Reverse(c.points)]
    ELSE IF ~increasing_order /\ direction = "upwards"
         THEN [c EXCEPT !.points = Reverse(c.points)]
    ELSE c

\* The test of process that guards the integration of one layer.
LayerIsIntegrated(upper_depth, lower_depth, start, end) ==
    \/ (Truthy(start) /\ upper_depth < start[1])
    \/ (Truthy(end) /\ lower_depth > end[1])

\* bottom_half_of_layer + top_half_of_layer of one layer.
LayerContribution(upper_depth, lower_depth, upper_data, lower_data) ==
    LET layer_depth == upper_depth - lower_depth
        top_half_of_layer == upper_data * Half(layer_depth)
        bottom_half_of_layer == lower_data * Half(layer_depth)
    IN bottom_half_of_layer + top_half_of_layer

\* zip(...) stops with the shortest of the three slice iterators.
NumberOfLayers ==
    Min(Len(upper_level_cube.points),
        Min(Len(lower_level_cube.points), Len(integrated_cube.points)))

ValidDirection(direction) == direction \in {"upwards", "downwards"}

EmptyCube == [points |-> <<>>, data |-> <<>>]

VIInit ==
    /\ coord_name_to_integrate = "none"
    /\ start_point = None
    /\ end_point = None
    /\ direction_of_integration = "none"
    /\ vpc = "new"
    /\ verr = "none"
    /\ cube = EmptyCube
    /\ slices_share_data = FALSE
    /\ upper_level_cube = EmptyCube
    /\ lower_level_cube = EmptyCube
    /\ integrated_cube = EmptyCube
    /\ layer_sum = 0
    /\ level_index = 0

\* __init__ without the check of the direction.
ConstructUnchecked(start, end, direction) ==
    /\ vpc = "new"
    /\ coord_name_to_integrate' = "height"
    /\ start_point' = start
    /\ end_point' = end
    /\ direction_of_integration' = direction
    /\ vpc' = "ready"
    /\ verr' = "none"
    /\ UNCHANGED <<cube, slices_share_data, upper_level_cube,
                   lower_level_cube, integrated_cube, layer_sum, level_index>>
    /\ UNCHANGED notVI

\* VerticalIntegration.__init__
Construct(start, end, direction) ==
    /\ vpc = "new"
    /\ coord_name_to_integrate' = "height"
    /\ start_point' = start
    /\ end_point' = end
    /\ direction_of_integration' = direction
    /\ IF ValidDirection(direction)
       THEN vpc' = "ready" /\ verr' = "none"
       ELSE vpc' = "error" /\ verr' = "ValueError"
    /\ UNCHANGED <<cube, slices_share_data, upper_level_cube,
                   lower_level_cube, integrated_cube, layer_sum, level_index>>
    /\ UNCHANGED notVI

\* process, up to the loop: the two extractions, the normalisation of both
\* and the copy of the lower level cube.
ProcessStart(c, shared) ==
    /\ vpc = "ready"
    /\ cube' = c
    /\ slices_share_data' = shared
    /\ LET n == Len(c.points)
           upper_levels == SubSeq(c.points, 1, n - 1)
           lower_levels == SubSeq(c.points, 2, n)
           upper == EnsureMonotonicInChosenDirection(
                        Extract(c, upper_levels), direction_of_integration)
           lower == EnsureMonotonicInChosenDirection(
                        Extract(c, lower_levels), direction_of_integration)
       IN /\ upper_level_cube' = upper
          /\ lower_level_cube' = lower
          /\ integrated_cube' = lower
    /\ layer_sum' = 0
    /\ level_index' = 1
    /\ vpc' = "loop"
    /\ UNCHANGED <<coord_name_to_integrate, start_point, end_point,
                   direction_of_integration, verr>>
    /\ UNCHANGED notVI

\* One iteration of the loop over levels_tuple.
ProcessLayer ==
    /\ vpc = "loop"
    /\ level_index <= NumberOfLayers
    /\ LET upper_depth == upper_level_cube.points[level_index]
           lower_depth == lower_level_cube.points[level_index]
           new_sum == layer_sum + LayerContribution(
                          upper_depth, lower_depth,
                          upper_level_cube.data[level_index],
                          lower_level_cube.data[level_index])
       IN IF LayerIsIntegrated(upper_depth, lower_depth,
                               start_point, end_point)
          THEN /\ layer_sum' = new_sum
               /\ integrated_cube' =
                      IF slices_share_data
                      THEN [integrated_cube EXCEPT !.data[level_index] = new_sum]
                      ELSE integrated_cube
          ELSE UNCHANGED <<layer_sum, integrated_cube>>
    /\ level_index' = level_index + 1
    /\ UNCHANGED <<coord_name_to_integrate, start_point, end_point,
                   direction_of_integration, vpc, verr, cube,
                   slices_share_data, upper_level_cube, lower_level_cube>>
    /\ UNCHANGED notVI

\* return integrated_cube
ProcessReturn ==
    /\ vpc = "loop"
    /\ level_index > NumberOfLayers
    /\ vpc' = "done"
    /\ UNCHANGED <<coord_name_to_integrate, start_point, end_point,
                   direction_of_integration, verr, cube, slices_share_data,
                   upper_level_cube, lower_level_cube, integrated_cube,
                   layer_sum, level_index>>
    /\ UNCHANGED notVI

VINext ==
    \/ \E s \in BoundPoints, e \in BoundPoints, d \in Directions :
           Construct(s, e, d)
    \/ \E c \in InputCubes, shared \in BOOLEAN : ProcessStart(c, shared)
    \/ ProcessLayer
    \/ ProcessReturn


\* ----------------------------------------------------- claims, vertical.py

\* The window of the specification: a layer is included if (start_point is
\* unset or upper_point >= start_point) and (end_point is unset or
\* lower_point <= end_point).
InWindow(upper_depth, lower_depth, start, end) ==
    /\ (start = None \/ upper_depth >= start[1])
    /\ (end = None \/ lower_depth <= end[1])

\* C1: process, upwards and without start_point and end_point, on the levels
\* [0,10,20,30] with value 1 at every level returns the three cumulative
\* trapezoidal sums [10,20,30].
C1_UnitColumnIntegrates ==
    (/\ vpc = "done"
     /\ cube = [points |-> <<0, 10, 20, 30>>, data |-> <<1, 1, 1, 1>>]
     /\ direction_of_integration = "upwards"
     /\ start_point = None
     /\ end_point = None)
    => integrated_cube.data = <<10, 20, 30>>

ConfigurationUnchanged ==
    UNCHANGED <<coord_name_to_integrate, start_point, end_point,
                direction_of_integration>>

\* C7: a VerticalIntegration constructed with a direction other than
\* 'upwards' or 'downwards' fails with ValueError, so process only runs on an
\* object whose direction is one of the two, and process changes none of the
\* four stored fields.
C7_DirectionValidatedConfigFrozen ==
    /\ [](vpc \in {"ready", "loop", "done"}
            => ValidDirection(direction_of_integration))
    /\ [][(vpc = "new" /\ ~ValidDirection(direction_of_integration'))
            => (vpc' = "error" /\ verr' = "ValueError")]_vars
    /\ [][(vpc \in {"ready", "loop", "done"})
            => ConfigurationUnchanged]_vars

\* A call of process that returned, on an object with both bounds set.
C7_Witness ==
    /\ vpc = "done"
    /\ direction_of_integration = "downwards"
    /\ Truthy(start_point)
    /\ Truthy(end_point)
    /\ level_index > 2

\* C10: a layer's contribution is added to the running sum and written to
\* the output at its index if and only if the layer is inside the window;
\* a layer outside it changes neither.
C10_LayerIntegratedIffInWindow ==
    [][(vpc = "loop" /\ level_index <= NumberOfLayers) =>
        LET upper_depth == upper_level_cube.points[level_index]
            lower_depth == lower_level_cube.points[level_index]
            contribution == LayerContribution(
                                upper_depth, lower_depth,
                                upper_level_cube.data[level_index],
                                lower_level_cube.data[level_index])
        IN IF InWindow(upper_depth, lower_depth, start_point, end_point)
           THEN /\ layer_sum' = layer_sum + contribution
                /\ integrated_cube'.data[level_index] = layer_sum'
           ELSE /\ layer_sum' = layer_sum
                /\ integrated_cube' = integrated_cube]_vars

\* =============================== ensemble_copula_coupling_utilities.py
\* ------------------------------------------- choose_set_of_percentiles

SamplingOptions == {"quantile", "random", "bogus"}

\* linspace with the step taken over num intervals, as without the endpoint.
LinspaceWithoutEndpoint(start, stop, num) ==
    LET step == FloatDivInt(FloatSub(stop, start), num)
    IN [i \in 1..num |->
           FloatAdd(FloatMul(FloatFromInt(i - 1), step), start)]

\* np.linspace(start, stop, num) with the endpoint included (start <= stop):
\* arange(num) * step + start with step = (stop - start) / (num - 1), the
\* last sample then set to stop; a single sample is 0 * (stop - start) + start.
Linspace(start, stop, num) ==
    IF num = 1 THEN <<start>>
    ELSE LET step == FloatDivInt(FloatSub(stop, start), num - 1)
         IN [i \in 1..num |->
                IF i = num THEN stop
                ELSE FloatAdd(FloatMul(FloatFromInt(i - 1), step), start)]

\* random.uniform(a, b) for the value u of random.random(): a + (b-a) * u.
Uniform(a, b, u) == FloatAdd(a, FloatMul(FloatSub(b, a), u))

\* The values random.random() is drawn from: the multiples of 2^-RandomBits
\* in [0, 1), and the largest float below 1.
RandomValues ==
    {Canonical(BigFromInt(k), -RandomBits) : k \in 0..(2^RandomBits - 1)}
        \cup {Canonical(BigSub(BigShiftLeft(<<1>>, 53), <<1>>), -53)}

\* sorted(list): insertion of each item after the items not greater than it.
RECURSIVE InsertSorted(_, _)
InsertSorted(x, s) ==
    IF s = <<>> THEN <<x>>
    ELSE IF FloatLess(x, Head(s)) THEN <<x>> \o s
    ELSE <<Head(s)>> \o InsertSorted(x, Tail(s))

\* The list left in the order of the draws.
Unsorted(s) == s

RECURSIVE SortedFrom(_, _)
SortedFrom(s, acc) ==
    IF s = <<>> THEN acc ELSE SortedFrom(Tail(s), InsertSorted(Head(s), acc))

Sorted(s) == SortedFrom(s, <<>>)

\* [item*100 for item in percentiles]
ScaleToPercent(s) == [i \in 1..Len(s) |-> FloatMul(s[i], FloatFromInt(100))]

\* 1/float(1+no_of_percentiles) and no_of_percentiles/float(1+no_of_percentiles)
LowestProbability(n) == FloatDivInt(FloatFromInt(1), 1 + n)
HighestProbability(n) == FloatDivInt(FloatFromInt(n), 1 + n)

PctInit ==
    /\ no_of_percentiles = 0
    /\ sampling = "none"
    /\ percentiles = <<>>
    /\ ppc = "idle"
    /\ perr = "none"
    /\ pct_result = <<>>

\* choose_set_of_percentiles, the call: the quantile branch returns, the
\* random branch enters its loop, any other sampling raises.
ChooseSetOfPercentiles(n, option) ==
    /\ ppc = "idle"
    /\ no_of_percentiles' = n
    /\ sampling' = option
    /\ IF option = "quantile"
       THEN /\ percentiles' = Linspace(LowestProbability(n),
                                       HighestProbability(n), n)
            /\ pct_result' = ScaleToPercent(percentiles')
            /\ ppc' = "done"
            /\ perr' = "none"
       ELSE IF option = "random"
       THEN /\ percentiles' = <<>>
            /\ ppc' = "drawing"
            /\ UNCHANGED <<perr, pct_result>>
       ELSE /\ ppc' = "error"
            /\ perr' = "ValueError"
            /\ UNCHANGED <<percentiles, pct_result>>
    /\ UNCHANGED notPct

\* One iteration of the loop of the random branch.
AppendRandomPercentile(u) ==
    /\ ppc = "drawing"
    /\ Len(percentiles) < no_of_percentiles
    /\ percentiles' = Append(percentiles,
                             Uniform(LowestProbability(no_of_percentiles),
                                     HighestProbability(no_of_percentiles), u))
    /\ UNCHANGED <<no_of_percentiles, sampling, ppc, perr, pct_result>>
    /\ UNCHANGED notPct

\* The end of the random branch: sorted(percentiles), then the scaling.
ReturnRandomPercentiles ==
    /\ ppc = "drawing"
    /\ Len(percentiles) = no_of_percentiles
    /\ percentiles' = Sorted(percentiles)
    /\ pct_result' = ScaleToPercent(percentiles')
    /\ ppc' = "done"
    /\ UNCHANGED <<no_of_percentiles, sampling, perr>>
    /\ UNCHANGED notPct

\* The random branch is explored up to MaxRandomPercentiles draws.
PctNext ==
    \/ \E n \in 1..MaxPercentiles, option \in SamplingOptions :
           /\ (option = "random" => n <= MaxRandomPercentiles)
           /\ ChooseSetOfPercentiles(n, option)
    \/ \E u \in RandomValues : AppendRandomPercentile(u)
    \/ ReturnRandomPercentiles

\* ------------------------------------ claims, choose_set_of_percentiles

IsAscending(s) == \A i \in 1..(Len(s) - 1) : FloatLeq(s[i], s[i + 1])
IsStrictlyAscending(s) == \A i \in 1..(Len(s) - 1) : FloatLess(s[i], s[i + 1])

\* C3, as claimed: in quantile mode the N values returned are 100*i/(N+1)
\* for i = 1..N (as floats: that quotient, rounded), strictly increasing,
\* inside the open interval (0,100), value i and value N+1-i add up to 100,
\* and for odd N the middle value is exactly 50.
C3_QuantileExact ==
    (ppc = "done" /\ sampling = "quantile") =>
        LET n == no_of_percentiles IN
        /\ Len(pct_result) = n
        /\ \A i \in 1..n :
              /\ pct_result[i] = FloatDivInt(FloatFromInt(100 * i), n + 1)
              /\ GreaterThanRatio(pct_result[i], 0, 1)
              /\ LessThanRatio(pct_result[i], 100, 1)
              /\ FloatAdd(pct_result[i], pct_result[n + 1 - i])
                     = FloatFromInt(100)
        /\ IsStrictlyAscending(pct_result)
        /\ (n % 2 = 1 => pct_result[(n + 1) \div 2] = FloatFromInt(50))

\* C3, amended: in quantile mode the N values returned are within 2^-40 of
\* 100*i/(N+1) for i = 1..N, strictly increasing, inside the open interval
\* (0,100), value i and value N+1-i add up to 100 within 2^-40, and for odd
\* N the middle value is within 2^-40 of 50.
C3_QuantileWithinRounding ==
    (ppc = "done" /\ sampling = "quantile") =>
        LET n == no_of_percentiles IN
        /\ Len(pct_result) = n
        /\ \A i \in 1..n :
              /\ CloseTo(pct_result[i], 100 * i, n + 1)
              /\ GreaterThanRatio(pct_result[i], 0, 1)
              /\ LessThanRatio(pct_result[i], 100, 1)
              /\ CloseTo(FloatAdd(pct_result[i], pct_result[n + 1 - i]),
                         100, 1)
        /\ IsStrictlyAscending(pct_result)
        /\ (n % 2 = 1 => CloseTo(pct_result[(n + 1) \div 2], 50, 1))

\* A quantile call for eleven percentiles, whose middle value is not 50.
C3_Witness ==
    /\ ppc = "done"
    /\ sampling = "quantile"
    /\ no_of_percentiles = 11
    /\ pct_result[6] # FloatFromInt(50)

\* C4, as claimed: in random mode the N values returned are sorted ascending
\* and every one lies in the open interval (100/(N+1), 100*N/(N+1)).
C4_RandomInsideOpenInterval ==
    (ppc = "done" /\ sampling = "random") =>
        LET n == no_of_percentiles IN
        /\ Len(pct_result) = n
        /\ IsAscending(pct_result)
        /\ \A i \in 1..n :
              /\ GreaterThanRatio(pct_result[i], 100, n + 1)
              /\ LessThanRatio(pct_result[i], 100 * n, n + 1)

\* C4, amended: in random mode the N values returned are sorted ascending
\* and every one lies, within 2^-40, in the closed interval
\* [100/(N+1), 100*N/(N+1)].
C4_RandomInsideClosedInterval ==
    (ppc = "done" /\ sampling = "random") =>
        LET n == no_of_percentiles IN
        /\ Len(pct_result) = n
        /\ IsAscending(pct_result)
        /\ \A i \in 1..n :
              /\ AtLeastRatio(pct_result[i], 100, n + 1)
              /\ AtMostRatio(pct_result[i], 100 * n, n + 1)

\* A random call of three draws, the lowest at the lower end of the interval.
C4_Witness ==
    /\ ppc = "done"
    /\ sampling = "random"
    /\ no_of_percentiles = 3
    /\ pct_result[1] = FloatFromInt(25)
    /\ FloatLess(pct_result[1], pct_result[2])
    /\ FloatLess(pct_result[2], pct_result[3])

\* ------------------------------- restore_non_probabilistic_dimensions

RECURSIVE Product(_)
Product(shape) == IF shape = <<>> THEN 1 ELSE Head(shape) * Product(Tail(shape))

\* The list left whole.
PopNothing(shape, k) == shape

\* list.pop(k) for the 0-based index k: the list without that item.
Pop(shape, k) == SubSeq(shape, 1, k) \o SubSeq(shape, k + 2, Len(shape))

\* cube.coords(name, dim_coords=True) and cube.coords(name, dim_coords=False)
DimCoordsNamed(c, name) == {co \in c.dim_coords : co.name = name}
AuxCoordsNamed(c, name) == {co \in c.aux_coords : co.name = name}

\* cube.coord_dims(name), for a name that one coordinate of the cube bears.
CoordDims(c, name) ==
    (CHOOSE co \in c.dim_coords \cup c.aux_coords : co.name = name).dims

\* Any dimension coordinate taken for the first one.
IsAnyDimension(c, name) == TRUE

\* original_cube.coord_dims(name)[0] == 0
IsFirstDimension(c, name) == CoordDims(c, name)[1] = 0

\* numpy's array.reshape(shape): possible when the sizes agree.
CanReshape(array, shape) == Product(array.shape) = Product(shape)

\* The cubes: every shape, the coordinate "realization" a dimension
\* coordinate of one dimension, an auxiliary coordinate of the first
\* dimension or a scalar coordinate, or missing; and the cube of shape
\* (5,4,3) with "realization" on dimension 0.
CubeShapes ==
    UNION {[1..n -> 1..MaxDimLength] : n \in 1..MaxDims}

CubesOfShape(shape) ==
    {[shape |-> shape,
      dim_coords |-> {[name |-> "realization", dims |-> <<d>>]},
      aux_coords |-> {}] : d \in 0..(Len(shape) - 1)}
    \cup
    {[shape |-> shape,
      dim_coords |-> {[name |-> "time", dims |-> <<0>>]},
      aux_coords |-> {[name |-> "realization", dims |-> ds]}]
        : ds \in {<<>>, <<0>>}}
    \cup
    {[shape |-> shape,
      dim_coords |-> {[name |-> "time", dims |-> <<0>>]},
      aux_coords |-> {}]}

ExampleCube ==
    [shape |-> <<5, 4, 3>>,
     dim_coords |-> {[name |-> "realization", dims |-> <<0>>]},
     aux_coords |-> {}]

\* The calls: every cube with every small 2-D array and length, and the
\* arrays (20,12) and (7,12) with the lengths 7 and 20 for the cube (5,4,3).
RestoreCalls ==
    {[array |-> [shape |-> <<r, k>>], cube |-> c, length |-> len]
        : r \in 1..MaxRows,
          k \in {Product(sh) : sh \in CubeShapes},
          c \in UNION {CubesOfShape(sh) : sh \in CubeShapes},
          len \in 1..MaxRows}
    \cup
    {[array |-> [shape |-> sh], cube |-> ExampleCube, length |-> len]
        : sh \in {<<20, 12>>, <<7, 12>>}, len \in {7, 20}}

RestoreInit ==
    /\ array_to_reshape = [shape |-> <<>>]
    /\ original_cube = [shape |-> <<>>, dim_coords |-> {}, aux_coords |-> {}]
    /\ input_probabilistic_dimension_name = "none"
    /\ output_probabilistic_dimension_length = 0
    /\ shape_to_reshape_to = <<>>
    /\ rpc = "idle"
    /\ rerr = "none"
    /\ rraised_by = "none"
    /\ restored = [shape |-> <<>>]

\* restore_non_probabilistic_dimensions
RestoreNonProbabilisticDimensions(array, c, name, length) ==
    /\ rpc = "idle"
    /\ array_to_reshape' = array
    /\ original_cube' = c
    /\ input_probabilistic_dimension_name' = name
    /\ output_probabilistic_dimension_length' = length
    /\ IF DimCoordsNamed(c, name) # {}
       THEN IF IsFirstDimension(c, name)
            THEN /\ shape_to_reshape_to' =
                        <<length>> \o Pop(c.shape, CoordDims(c, name)[1])
                 /\ rerr' = IF CanReshape(array, shape_to_reshape_to')
                            THEN "none" ELSE "ValueError"
                 /\ rraised_by' = IF rerr' = "none" THEN "none" ELSE "reshape"
            ELSE /\ shape_to_reshape_to' = c.shape
                 /\ rerr' = "ValueError"
                 /\ rraised_by' = "not the first dimension"
       ELSE IF AuxCoordsNamed(c, name) # {}
       THEN /\ shape_to_reshape_to' = <<length>> \o c.shape
            /\ rerr' = IF CanReshape(array, shape_to_reshape_to')
                       THEN "none" ELSE "ValueError"
            /\ rraised_by' = IF rerr' = "none" THEN "none" ELSE "reshape"
       ELSE /\ shape_to_reshape_to' = c.shape
            /\ rerr' = "CoordinateNotFoundError"
            /\ rraised_by' = "coordinate not available"
    /\ rpc' = IF rerr' = "none" THEN "done" ELSE "error"
    /\ restored' = IF rerr' = "none" THEN [shape |-> shape_to_reshape_to']
                   ELSE [shape |-> <<>>]
    /\ UNCHANGED notRestore

RestoreNext ==
    \E call \in RestoreCalls, name \in {"realization", "percentile"} :
        RestoreNonProbabilisticDimensions(
            call.array, call.cube, name, call.length)

\* ------------------- claims, restore_non_probabilistic_dimensions

Called == rpc \in {"done", "error"}

\* The named coordinate is a dimension coordinate of dimension 0, of
\* another dimension, a coordinate of no dimension of its own, or missing.
OnDimensionZero ==
    \E co \in original_cube.dim_coords :
        co.name = input_probabilistic_dimension_name /\ co.dims = <<0>>
OnOtherDimension ==
    \E co \in original_cube.dim_coords :
        co.name = input_probabilistic_dimension_name /\ co.dims # <<0>>
OnlyNonDimension ==
    /\ \E co \in original_cube.aux_coords :
           co.name = input_probabilistic_dimension_name
    /\ ~OnDimensionZero
    /\ ~OnOtherDimension
Missing == ~OnDimensionZero /\ ~OnOtherDimension /\ ~OnlyNonDimension

SizesAgree ==
    Product(array_to_reshape.shape) = Product(shape_to_reshape_to)

\* C5, as claimed: with the named coordinate on dimension 0, every 2-D
\* array and every length L give an array of shape [L] + original_shape[1:];
\* the cube (5,4,3) with the array (20,12) and L = 7 gives (7,4,3).
C5_FirstDimensionReplaced ==
    (Called /\ OnDimensionZero) =>
        /\ rpc = "done"
        /\ restored.shape = <<output_probabilistic_dimension_length>>
                                \o Tail(original_cube.shape)

\* C5, amended: with the named coordinate on dimension 0, a 2-D array that
\* holds L * product(original_shape[1:]) elements gives an array of shape
\* [L] + original_shape[1:], and any other array makes reshape raise
\* ValueError; the cube (5,4,3) with the array (20,12) and L = 7 raises.
C5_FirstDimensionReplacedIfSizesAgree ==
    (Called /\ OnDimensionZero) =>
        /\ shape_to_reshape_to = <<output_probabilistic_dimension_length>>
                                     \o Tail(original_cube.shape)
        /\ SizesAgree => (rpc = "done" /\ restored.shape = shape_to_reshape_to)
        /\ ~SizesAgree => (rpc = "error" /\ rerr = "ValueError"
                           /\ rraised_by = "reshape")
        /\ (/\ original_cube.shape = <<5, 4, 3>>
            /\ array_to_reshape.shape = <<20, 12>>
            /\ output_probabilistic_dimension_length = 7) => rpc = "error"

\* The cube (5,4,3) restored from an array of 20 rows of 12.
C5_Witness ==
    /\ rpc = "done"
    /\ OnDimensionZero
    /\ original_cube.shape = <<5, 4, 3>>
    /\ array_to_reshape.shape = <<20, 12>>
    /\ restored.shape = <<20, 4, 3>>

\* C6, as claimed: ValueError exactly when the named coordinate is a
\* dimension coordinate of a dimension other than 0, CoordinateNotFoundError
\* exactly when no coordinate bears the name, and for a coordinate that is
\* only a non-dimension coordinate neither, the target being [L] + the full
\* original shape.
C6_OutcomeByCoordinateStatus ==
    Called =>
        /\ rerr = "ValueError" <=> OnOtherDimension
        /\ rerr = "CoordinateNotFoundError" <=> Missing
        /\ OnlyNonDimension =>
              /\ rerr = "none"
              /\ restored.shape = <<output_probabilistic_dimension_length>>
                                      \o original_cube.shape

\* C6, amended: the function itself raises ValueError exactly when the
\* named coordinate is a dimension coordinate of a dimension other than 0
\* and CoordinateNotFoundError exactly when no coordinate bears the name;
\* for a coordinate that is only a non-dimension coordinate it raises
\* neither and targets [L] + the full original shape, which the array takes
\* if it holds that many elements, reshape raising ValueError otherwise.
C6_OutcomeByCoordinateStatusAndSize ==
    Called =>
        /\ (rerr = "ValueError" /\ rraised_by = "not the first dimension")
               <=> OnOtherDimension
        /\ rerr = "CoordinateNotFoundError" <=> Missing
        /\ (rerr = "ValueError" /\ rraised_by = "reshape")
               <=> (~OnOtherDimension /\ ~Missing /\ ~SizesAgree)
        /\ OnlyNonDimension =>
              /\ shape_to_reshape_to =
                     <<output_probabilistic_dimension_length>>
                         \o original_cube.shape
              /\ SizesAgree =>
                     (rerr = "none" /\ restored.shape = shape_to_reshape_to)

\* A call for a scalar coordinate that returned the array with the full
\* shape behind the new dimension.
C6_Witness ==
    /\ rpc = "done"
    /\ OnlyNonDimension
    /\ Len(original_cube.shape) = 2
    /\ restored.shape = <<output_probabilistic_dimension_length>>
                            \o original_cube.shape

\* --------------------------------------- create_cube_with_percentiles
\* A coordinate is [name, dims, shape]: the 0-based dimensions it spans and
\* its length along each.  The checks of the cube library are those of
\* iris.coords.DimCoord, Cube.add_dim_coord and Cube.add_aux_coord.

\* The dimensions left where they are.
UnshiftedDims(dims) == dims

\* tuple([dim+1 for dim in dims])
ShiftedDims(dims) == [i \in 1..Len(dims) |-> dims[i] + 1]

\* np.float32(percentiles), element by element.
AsFloat32(values) == [i \in 1..Len(values) |-> Float32(values[i])]

\* The points of a DimCoord are strictly monotonic.
StrictlyMonotonic(points) ==
    \/ \A i \in 1..(Len(points) - 1) : FloatLess(points[i], points[i + 1])
    \/ \A i \in 1..(Len(points) - 1) : FloatLess(points[i + 1], points[i])

\* The coordinate spans dimensions of the cube, with their lengths.
FitsShape(co, shape) ==
    /\ Len(co.dims) = Len(co.shape)
    /\ \A i \in 1..Len(co.dims) :
           /\ co.dims[i] < Len(shape)
           /\ co.shape[i] = shape[co.dims[i] + 1]

CoordNames(c) == {co.name : co \in c.dim_coords \cup c.aux_coords}

\* Cube.add_dim_coord(coord, dim) succeeds: no coordinate of that name, the
\* dimension exists, bears no dimension coordinate and has the coordinate's
\* length.
CanAddDimCoord(c, co) ==
    /\ co.name \notin CoordNames(c)
    /\ Len(co.dims) = 1
    /\ FitsShape(co, c.shape)
    /\ \A other \in c.dim_coords : other.dims # co.dims

\* Cube.add_aux_coord(coord, dims) succeeds: no coordinate of that name and
\* the dimensions exist with the coordinate's lengths.
CanAddAuxCoord(c, co) ==
    /\ co.name \notin CoordNames(c)
    /\ FitsShape(co, c.shape)

\* The coordinate of the template, copied onto its shifted dimensions.
ShiftedCopy(co) == [co EXCEPT !.dims = ShiftedDims(co.dims)]

\* The percentiles supplied: 10 and 50, 100/3 as
\* choose_set_of_percentiles(2) returns it, and 50 + 2^-30.
PercentileValues ==
    {FloatFromInt(10), FloatFromInt(50),
     FloatMul(FloatDivInt(FloatFromInt(1), 3), FloatFromInt(100)),
     Canonical(BigAdd(BigShiftLeft(BigFromInt(50), 30), <<1>>), -30)}

PercentileLists ==
    UNION {[1..n -> PercentileValues] : n \in 1..MaxCubePercentiles}

\* Templates of one and two dimensions: a dimension coordinate on any of the
\* dimensions, a scalar and a one-dimensional auxiliary coordinate or none,
\* a derived coordinate over all dimensions or none.
TemplateShapes == {<<2>>, <<2, 3>>}

DimCoordOf(shape, d) ==
    [name |-> IF d = 0 THEN "time" ELSE "latitude",
     dims |-> <<d>>, shape |-> <<shape[d + 1]>>]

DimCoordChoices(shape) ==
    {<<>>, <<DimCoordOf(shape, 0)>>}
    \cup (IF Len(shape) = 2
          THEN {<<DimCoordOf(shape, 1)>>,
                <<DimCoordOf(shape, 0), DimCoordOf(shape, 1)>>}
          ELSE {})

AuxCoordChoices(shape) ==
    {<<>>,
     <<[name |-> "height", dims |-> <<>>, shape |-> <<>>],
       [name |-> "forecast_period", dims |-> <<0>>, shape |-> <<shape[1]>>]>>}

DerivedCoordChoices(shape) ==
    {<<>>,
     <<[name |-> "altitude",
        dims |-> [i \in 1..Len(shape) |-> i - 1], shape |-> shape]>>}

TemplateCubes ==
    UNION {
        {[shape |-> shape, units |-> "K", dim_coords |-> dc,
          aux_coords |-> ac, derived_coords |-> vc]
            : dc \in DimCoordChoices(shape), ac \in AuxCoordChoices(shape),
              vc \in DerivedCoordChoices(shape)}
        : shape \in TemplateShapes}

\* The data: the shape asked for, (P,) + the template's shape, the same with
\* one row more or less of percentiles, and with a longer last dimension.
DataShapes(n, shape) ==
    {<<n>> \o shape, <<n + 1>> \o shape,
     <<n>> \o [shape EXCEPT ![Len(shape)] = @ + 1]}

CubeInit ==
    /\ supplied_percentiles = <<>>
    /\ template_cube = [shape |-> <<>>, units |-> "none", dim_coords |-> <<>>,
                        aux_coords |-> <<>>, derived_coords |-> <<>>]
    /\ cube_data = [shape |-> <<>>]
    /\ custom_name = None
    /\ cube_unit = None
    /\ percentile_coord = [name |-> "none", points |-> <<>>, units |-> "none"]
    /\ result = [shape |-> <<>>, units |-> "none", dim_coords |-> {},
                 aux_coords |-> {}]
    /\ cpc = "idle"
    /\ cerr = "none"
    /\ coord_index = 0

\* create_cube_with_percentiles, up to the loops: the percentile coordinate,
\* the cube around the data and the percentile coordinate on dimension 0.
CreateCubeWithPercentiles(pcts, template, data, name, unit) ==
    /\ cpc = "idle"
    /\ supplied_percentiles' = pcts
    /\ template_cube' = template
    /\ cube_data' = data
    /\ custom_name' = name
    /\ cube_unit' = unit
    /\ LET percentile_coord_name ==
               IF name # None THEN name[1] ELSE "percentile_over_realization"
           points == AsFloat32(pcts)
           new_cube == [shape |-> data.shape,
                        units |-> IF unit # None THEN unit[1]
                                  ELSE template.units,
                        dim_coords |-> {}, aux_coords |-> {}]
           as_coord == [name |-> percentile_coord_name, dims |-> <<0>>,
                        shape |-> <<Len(points)>>]
       IN IF ~StrictlyMonotonic(points)
          THEN /\ cpc' = "error"
               /\ cerr' = "DimCoord"
               /\ UNCHANGED <<percentile_coord, result>>
          ELSE /\ percentile_coord' = [name |-> percentile_coord_name,
                                       points |-> points, units |-> "%"]
               /\ IF CanAddDimCoord(new_cube, as_coord)
                  THEN /\ result' = [new_cube EXCEPT !.dim_coords = {as_coord}]
                       /\ cpc' = "dim_coords"
                       /\ cerr' = "none"
                  ELSE /\ result' = new_cube
                       /\ cpc' = "error"
                       /\ cerr' = "add_dim_coord"
    /\ coord_index' = 1
    /\ UNCHANGED notCube

\* One iteration of the loop over template_cube.dim_coords.
AddDimCoord ==
    /\ cpc = "dim_coords"
    /\ coord_index <= Len(template_cube.dim_coords)
    /\ LET co == ShiftedCopy(template_cube.dim_coords[coord_index])
       IN IF CanAddDimCoord(result, co)
          THEN /\ result' = [result EXCEPT !.dim_coords = @ \cup {co}]
               /\ coord_index' = coord_index + 1
               /\ UNCHANGED <<cpc, cerr>>
          ELSE /\ cpc' = "error"
               /\ cerr' = "add_dim_coord"
               /\ UNCHANGED <<result, coord_index>>
    /\ UNCHANGED <<supplied_percentiles, template_cube, cube_data,
                   custom_name, cube_unit, percentile_coord>>
    /\ UNCHANGED notCube

\* One iteration of the loop over template_cube.aux_coords, which follows
\* the loop over the dimension coordinates.
AddAuxCoord ==
    /\ \/ cpc = "aux_coords"
       \/ cpc = "dim_coords" /\ coord_index > Len(template_cube.dim_coords)
    /\ LET index == IF cpc = "aux_coords" THEN coord_index ELSE 1
       IN /\ index <= Len(template_cube.aux_coords)
          /\ LET co == ShiftedCopy(template_cube.aux_coords[index])
             IN IF CanAddAuxCoord(result, co)
                THEN /\ result' = [result EXCEPT !.aux_coords = @ \cup {co}]
                     /\ coord_index' = index + 1
                     /\ cpc' = "aux_coords"
                     /\ UNCHANGED cerr
                ELSE /\ cpc' = "error"
                     /\ cerr' = "add_aux_coord"
                     /\ UNCHANGED <<result, coord_index>>
    /\ UNCHANGED <<supplied_percentiles, template_cube, cube_data,
                   custom_name, cube_unit, percentile_coord>>
    /\ UNCHANGED notCube

\* The loops before the loop over the derived coordinates are over.
AuxCoordsDone ==
    \/ cpc = "aux_coords" /\ coord_index > Len(template_cube.aux_coords)
    \/ /\ cpc = "dim_coords"
       /\ coord_index > Len(template_cube.dim_coords)
       /\ template_cube.aux_coords = <<>>

\* One iteration of the loop over template_cube.derived_coords.
AddDerivedCoord ==
    /\ cpc = "derived_coords" \/ AuxCoordsDone
    /\ LET index == IF cpc = "derived_coords" THEN coord_index ELSE 1
       IN /\ index <= Len(template_cube.derived_coords)
          /\ LET co == ShiftedCopy(template_cube.derived_coords[index])
             IN IF CanAddAuxCoord(result, co)
                THEN /\ result' = [result EXCEPT !.aux_coords = @ \cup {co}]
                     /\ coord_index' = index + 1
                     /\ cpc' = "derived_coords"
                     /\ UNCHANGED cerr
                ELSE /\ cpc' = "error"
                     /\ cerr' = "add_aux_coord"
                     /\ UNCHANGED <<result, coord_index>>
    /\ UNCHANGED <<supplied_percentiles, template_cube, cube_data,
                   custom_name, cube_unit, percentile_coord>>
    /\ UNCHANGED notCube

\* return result
ReturnCube ==
    /\ \/ /\ cpc = "derived_coords"
          /\ coord_index > Len(template_cube.derived_coords)
       \/ AuxCoordsDone /\ template_cube.derived_coords = <<>>
    /\ cpc' = "done"
    /\ UNCHANGED <<supplied_percentiles, template_cube, cube_data,
                   custom_name, cube_unit, percentile_coord, result, cerr,
                   coord_index>>
    /\ UNCHANGED notCube

CubeNext ==
    \/ /\ cpc = "idle"
       /\ \E pcts \in PercentileLists, template \in TemplateCubes,
             name \in {None, Some("percentile_over_time")},
             unit \in {None, Some("m")} :
              \E data \in {[shape |-> sh]
                              : sh \in DataShapes(Len(pcts), template.shape)} :
                  CreateCubeWithPercentiles(pcts, template, data, name, unit)
    \/ AddDimCoord
    \/ AddAuxCoord
    \/ AddDerivedCoord
    \/ ReturnCube

\* ------------------------- claims about create_cube_with_percentiles
Returned == cpc = "done"

TemplateCoords(seq) == {seq[i] : i \in 1..Len(seq)}

\* The percentile coordinate is the dimension coordinate of dimension 0 and
\* has one point for each percentile supplied.
PercentileCoordOnZero ==
    /\ [name |-> percentile_coord.name, dims |-> <<0>>,
        shape |-> <<Len(supplied_percentiles)>>] \in result.dim_coords
    /\ Len(percentile_coord.points) = Len(supplied_percentiles)
    /\ result.shape[1] = Len(supplied_percentiles)

\* Every coordinate of the template is on the result, each of its dimensions
\* moved up by one, its content as it was.
TemplateCoordsShifted ==
    /\ \A co \in TemplateCoords(template_cube.dim_coords) :
           \E r \in result.dim_coords :
               /\ r.name = co.name
               /\ r.shape = co.shape
               /\ r.dims = [i \in 1..Len(co.dims) |-> co.dims[i] + 1]
    /\ \A co \in TemplateCoords(template_cube.aux_coords)
                     \cup TemplateCoords(template_cube.derived_coords) :
           \E r \in result.aux_coords :
               /\ r.name = co.name
               /\ r.shape = co.shape
               /\ r.dims = [i \in 1..Len(co.dims) |-> co.dims[i] + 1]

\* Every coordinate of the result spans dimensions the result has, with
\* their lengths, and only the percentile coordinate spans dimension 0; the
\* result has the shape of the data, which is (P,) + the template's shape
\* when the data were given that shape.
DimsConsistentWithShape ==
    /\ \A r \in result.dim_coords \cup result.aux_coords :
           /\ \A i \in 1..Len(r.dims) :
                  /\ r.dims[i] \in 0..(Len(result.shape) - 1)
                  /\ r.shape[i] = result.shape[r.dims[i] + 1]
           /\ r.name # percentile_coord.name
                  => \A i \in 1..Len(r.dims) : r.dims[i] # 0
    /\ result.shape = cube_data.shape
    /\ cube_data.shape = <<Len(supplied_percentiles)>> \o template_cube.shape
           => result.shape
                  = <<Len(supplied_percentiles)>> \o template_cube.shape

\* C8 as stated: the cube returned has the percentile coordinate on dimension
\* 0 with the supplied percentile values as its points, every coordinate of
\* the template on its dimensions moved up by one, and every coordinate's
\* dimensions valid, other than 0 and consistent with the shape.
C8_SuppliedValuesOnDimensionZero ==
    Returned =>
        /\ PercentileCoordOnZero
        /\ percentile_coord.points = supplied_percentiles
        /\ TemplateCoordsShifted
        /\ DimsConsistentWithShape

\* C8 as amended: the cube returned has the percentile coordinate on
\* dimension 0 with the supplied percentile values rounded to single
\* precision as its points, every coordinate of the template on its
\* dimensions moved up by one, and every coordinate's dimensions valid, other
\* than 0 and consistent with the shape.
C8_SinglePrecisionValuesOnDimensionZero ==
    Returned =>
        /\ PercentileCoordOnZero
        /\ \A i \in 1..Len(supplied_percentiles) :
               percentile_coord.points[i] = Float32(supplied_percentiles[i])
        /\ TemplateCoordsShifted
        /\ DimsConsistentWithShape

\* A cube returned for two percentiles, one of them changed by the rounding,
\* from a template with dimension, auxiliary and derived coordinates.
C8_Witness ==
    /\ Returned
    /\ Len(supplied_percentiles) = 2
    /\ percentile_coord.points # supplied_percentiles
    /\ Len(template_cube.dim_coords) = 2
    /\ template_cube.aux_coords # <<>>
    /\ template_cube.derived_coords # <<>>

\* ------------------------------------------------- endpoint padding
\* An array is [dtype, rows], its elements binary floats that its dtype can
\* hold; an endpoint is [kind, value], a Python int or float.

Dtypes == {"int64", "float32", "float64"}

\* The value with its fraction dropped.
Truncated(x) ==
    IF x.e >= 0 THEN x ELSE Canonical(BigShiftRight(x.m, 0 - x.e).q, 0)

\* The value as an element of an array of the dtype (np.full stores the fill
\* value with an unsafe cast).
AsDtype(x, dtype) ==
    CASE dtype = "int64" -> Truncated(x)
      [] dtype = "float32" -> Float32(x)
      [] dtype = "float64" -> x

\* The dtype of np.concatenate over np.array([low]), the array and
\* np.array([high]): int64 when all three hold integers, else float64.
ResultType(low, dtype, high) ==
    IF low.kind = "int" /\ dtype = "int64" /\ high.kind = "int"
    THEN "int64" ELSE "float64"

\* The endpoints the wrong way round.
PaddedRowSwapped(low, row, high) == <<high>> \o row \o <<low>>

\* One row of np.concatenate((lower_array, array, upper_array)).
PaddedRow(low, row, high) == <<low>> \o row \o <<high>>

\* Elements an array of the dtype may hold: 1 and 2, 3/2 and 2, 3/2 and
\* 100/3 as a double.
ElementValues(dtype) ==
    CASE dtype = "int64" -> {FloatFromInt(1), FloatFromInt(2)}
      [] dtype = "float32" ->
             {FloatDivInt(FloatFromInt(3), 2), FloatFromInt(2)}
      [] dtype = "float64" ->
             {FloatDivInt(FloatFromInt(3), 2),
              FloatMul(FloatDivInt(FloatFromInt(1), 3), FloatFromInt(100))}

\* The endpoints: the ints 0 and 3, the floats 1/2 and 100/3.
Endpoints ==
    {[kind |-> "int", value |-> FloatFromInt(0)],
     [kind |-> "int", value |-> FloatFromInt(3)],
     [kind |-> "float", value |-> FloatDivInt(FloatFromInt(1), 2)],
     [kind |-> "float",
      value |-> FloatMul(FloatDivInt(FloatFromInt(1), 3), FloatFromInt(100))]}

Arrays1d ==
    UNION {{[dtype |-> dtype, rows |-> <<row>>]
               : row \in UNION {[1..n -> ElementValues(dtype)]
                                   : n \in 0..MaxPadLength}}
           : dtype \in Dtypes}

Arrays2d ==
    UNION {{[dtype |-> dtype, rows |-> rows]
               : rows \in UNION {[1..r -> [1..n -> ElementValues(dtype)]]
                                    : r \in 1..MaxPadRows,
                                      n \in 0..MaxPadLength}}
           : dtype \in Dtypes}

PadInit ==
    /\ array_in = [dtype |-> "none", rows |-> <<>>]
    /\ low_endpoint = [kind |-> "none", value |-> FloatFromInt(0)]
    /\ high_endpoint = [kind |-> "none", value |-> FloatFromInt(0)]
    /\ array_out = [dtype |-> "none", rows |-> <<>>]
    /\ padpc = "idle"

Concatenate2dArrayWith2dArrayEndpoints(array_2d, low, high) ==
    /\ padpc = "idle"
    /\ array_in' = array_2d
    /\ low_endpoint' = low
    /\ high_endpoint' = high
    /\ LET lower_array == AsDtype(low.value, array_2d.dtype)
           upper_array == AsDtype(high.value, array_2d.dtype)
       IN array_out' =
              [dtype |-> array_2d.dtype,
               rows |-> [r \in 1..Len(array_2d.rows) |->
                            PaddedRow(lower_array, array_2d.rows[r],
                                      upper_array)]]
    /\ padpc' = "2d"
    /\ UNCHANGED notPad

InsertLowerAndUpperEndpointTo1dArray(array_1d, low, high) ==
    /\ padpc = "idle"
    /\ array_in' = array_1d
    /\ low_endpoint' = low
    /\ high_endpoint' = high
    /\ array_out' =
           [dtype |-> ResultType(low, array_1d.dtype, high),
            rows |-> <<PaddedRow(low.value, array_1d.rows[1], high.value)>>]
    /\ padpc' = "1d"
    /\ UNCHANGED notPad

PadNext ==
    \/ \E array_2d \in Arrays2d, low \in Endpoints, high \in Endpoints :
           Concatenate2dArrayWith2dArrayEndpoints(array_2d, low, high)
    \/ \E array_1d \in Arrays1d, low \in Endpoints, high \in Endpoints :
           InsertLowerAndUpperEndpointTo1dArray(array_1d, low, high)

\* ---------------------------------------- claims about endpoint padding
Padded == padpc \in {"1d", "2d"}

\* As many rows as before, each longer by two, the elements of the input in
\* their order and with their values between the two new ones.
RowsKeptBetweenEndpoints ==
    /\ Len(array_out.rows) = Len(array_in.rows)
    /\ \A r \in 1..Len(array_in.rows) :
           /\ Len(array_out.rows[r]) = Len(array_in.rows[r]) + 2
           /\ \A i \in 1..Len(array_in.rows[r]) :
                  array_out.rows[r][i + 1] = array_in.rows[r][i]

\* C9 as stated: padding returns, whatever the order of lo and hi, as many
\* rows as it was given, each row [x1..xn] become [lo, x1..xn, hi].
C9_RowsPaddedWithEndpoints ==
    Padded =>
        /\ RowsKeptBetweenEndpoints
        /\ \A r \in 1..Len(array_out.rows) :
               /\ array_out.rows[r][1] = low_endpoint.value
               /\ array_out.rows[r][Len(array_out.rows[r])]
                      = high_endpoint.value

\* C9 as amended: padding returns, whatever the order of lo and hi, as many
\* rows as it was given, each row [x1..xn] become [lo', x1..xn, hi'], where
\* lo' and hi' are lo and hi for a 1-d array and lo and hi converted to the
\* array's dtype for a 2-d array.
C9_RowsPaddedWithConvertedEndpoints ==
    Padded =>
        /\ RowsKeptBetweenEndpoints
        /\ \A r \in 1..Len(array_out.rows) :
               /\ array_out.rows[r][1]
                      = IF padpc = "2d"
                        THEN AsDtype(low_endpoint.value, array_in.dtype)
                        ELSE low_endpoint.value
               /\ array_out.rows[r][Len(array_out.rows[r])]
                      = IF padpc = "2d"
                        THEN AsDtype(high_endpoint.value, array_in.dtype)
                        ELSE high_endpoint.value

\* Two rows of two integers padded with a lower endpoint above the upper
\* one, the upper one losing its fraction.
C9_Witness ==
    /\ padpc = "2d"
    /\ array_in.dtype = "int64"
    /\ Len(array_in.rows) = 2
    /\ Len(array_in.rows[1]) = 2
    /\ FloatLess(high_endpoint.value, low_endpoint.value)
    /\ array_out.rows[2][4] # high_endpoint.value

\* ------------------------ ensure_monotonic_in_chosen_direction, called
\* on its own on a constructed object.  The chosen coordinate is a
\* dimension coordinate, whose points are strictly monotonic, or an
\* auxiliary coordinate, whose points are any.

CoordKinds == {"DimCoord", "AuxCoord"}

\* The points a coordinate of the kind can hold.
CoordAllows(kind, points) == kind = "DimCoord" => IsMonotonic(points)

MonoInit ==
    /\ coord_kind = "none"
    /\ cube_in = EmptyCube
    /\ cube_out = EmptyCube
    /\ mpc = "idle"

EnsureMonotonic(kind, c) ==
    /\ vpc = "ready"
    /\ mpc = "idle"
    /\ coord_kind' = kind
    /\ cube_in' = c
    /\ cube_out' = EnsureMonotonicInChosenDirection(c, direction_of_integration)
    /\ mpc' = "returned"
    /\ UNCHANGED viVars
    /\ UNCHANGED notMono

MonoNext ==
    \/ \E direction \in Directions : Construct(None, None, direction)
    \/ /\ mpc = "idle"
       /\ \E kind \in CoordKinds, n \in 1..MaxLevels :
              \E p \in [1..n -> LevelPoints], d \in [1..n -> DataValues] :
                  /\ CoordAllows(kind, p)
                  /\ EnsureMonotonic(kind, [points |-> p, data |-> d])

\* ---------------- claims about ensure_monotonic_in_chosen_direction
\* C11: whenever ensure_monotonic_in_chosen_direction returns a cube, the
\* points of the chosen coordinate are strictly ascending for 'upwards' and
\* strictly descending for 'downwards', and the points it was given were
\* monotonic (for points that are not, it raises instead of returning).
C11_ReturnedPointsOrdered ==
    mpc = "returned" =>
        /\ direction_of_integration = "upwards"
               => \A i \in 1..(Len(cube_out.points) - 1) :
                      cube_out.points[i] < cube_out.points[i + 1]
        /\ direction_of_integration = "downwards"
               => \A i \in 1..(Len(cube_out.points) - 1) :
                      cube_out.points[i] > cube_out.points[i + 1]
        /\ IsMonotonic(cube_in.points)

\* ========================================================= specifications

Init ==
    /\ VIInit
    /\ PctInit
    /\ RestoreInit
    /\ CubeInit
    /\ PadInit
    /\ MonoInit

\* One VerticalIntegration object: its construction and one call of process.
SpecVI == Init /\ [][VINext]_vars

\* One call of choose_set_of_percentiles.
SpecPct == Init /\ [][PctNext]_vars

\* One call of restore_non_probabilistic_dimensions.
SpecRestore == Init /\ [][RestoreNext]_vars

\* One call of create_cube_with_percentiles.
SpecCube == Init /\ [][CubeNext]_vars

\* One call of an endpoint padding function.
SpecPad == Init /\ [][PadNext]_vars

\* One VerticalIntegration object: its construction and one call of
\* ensure_monotonic_in_chosen_direction.
SpecMonotonic == Init /\ [][MonoNext]_vars

====
